---- MODULE Spec2Model ----
(***************************************************************************)
(* Model of bailed_roostats.py: bailed execution in a process pool whose   *)
(* workers live for one task (bailmap), the pairwise reduction (cascade),  *)
(* the splitting of a workload into chunks (batch), the derivation of the  *)
(* per-task random seeds (init_seed, seed_roo_random) and the pipeline     *)
(* that hypo_test_inversion and hypo_test build from them; and of         *)
(* upper_limit_results.py: the steps of execute, the merge of loaded and   *)
(* new results with its check for reused seeds, and the range test of      *)
(* output.                                                                 *)
(*                                                                         *)
(* Each part has its own specification over the shared variables; the      *)
(* variables a specification does not use stay at their idle value.        *)
(***************************************************************************)
EXTENDS Integers, Sequences, FiniteSets, TLC

VARIABLES
    sd,      \* seed derivation: base seed, task index, seed handed to a worker
    bat,     \* batch(n, k): arguments and the chunk sizes yielded so far
    casc,    \* cascade(func, items): working list and counters
    pools,   \* the multiprocessing pools made by bailmap, by the stage they serve
    call,    \* one bailmap call and the consumer of the sequence it returns
    pipe,    \* one hypo_test_inversion / hypo_test request
    req,     \* the entry of a request: its arguments and how far it has come
    ulr,     \* one run of upper_limit_results.execute
    lim,     \* one call of upper_limit_results.output
    tex      \* one call of upper_limit_results.textable

vars == <<sd, bat, casc, pools, call, pipe, req, ulr, lim, tex>>

(***************************************************************************)
(* Bounds of the model.                                                    *)
(***************************************************************************)
MaxIndex == 65536      \* largest task index i of seed + i that is tried
MaxTotal == 12         \* largest n of batch(n, k)
MaxChunk == 5          \* largest k of batch(n, k)
MaxItems == 5          \* longest list given to cascade
MaxAddend == 1         \* items of cascade(add, ...) are in -MaxAddend..MaxAddend
MaxInputs == 3         \* longest iterable given to one bailmap call
MaxProcs == 2          \* largest `processes' argument
MaxToys == 2           \* largest ntoys of a request
MaxBatch == 2          \* largest batch_size of a request
MaxPoints == 2         \* largest number of scan points of a request
CpuCount == 2          \* processes of a pool made with processes=None
MaxLoad == 2           \* longest -load list
MaxNBatch == 2         \* largest -nbatch
MaxScan == 3           \* most points of a scan given to output
MaxX == 3              \* largest scanned point

(***************************************************************************)
(* Program constants.                                                      *)
(***************************************************************************)
SeedMixer == 40503     \* 0x9e37
HalfWord == 65536      \* 2**16
MaxTasksPerChild == 1  \* multiprocessing.Pool(processes, maxtasksperchild=1)

Idle == [pc |-> "idle"]

Min(a, b) == IF a < b THEN a ELSE b

(***************************************************************************)
(* init_seed, seed + i, seed_roo_random.                                   *)
(*                                                                         *)
(* A Python int n >= 0 is kept as [hi |-> n \div 2**16, lo |-> n % 2**16]; *)
(* hi is not bounded, as the Python int is not.                            *)
(***************************************************************************)

\* The user seeds tried: the ends of [0, 2**16), neighbours, and the seed
\* whose mixed high half is 0xffff.
SeedBases == {0, 1, 2, 34937, 65535}

\* A mix with an even constant, 0x9e36: seeds half the range apart mix alike.
MixSeed_EvenMixer(random_seed) ==
    LET low == random_seed % 256
        high == random_seed \div 256
    IN  (low * (SeedMixer - 1) + ((high * (SeedMixer - 1)) % 256) * 256) % HalfWord

\* (random_seed * 0x9e37) & (2**16 - 1), the product taken bytewise.
MixSeed(random_seed) ==
    LET low == random_seed % 256
        high == random_seed \div 256
    IN  (low * SeedMixer + ((high * SeedMixer) % 256) * 256) % HalfWord

\* An init_seed that leaves the counter half at 0: seed << 16.
init_seed_CounterFromZero(random_seed) == [hi |-> MixSeed(random_seed), lo |-> 0]

\* init_seed(random_seed): (seed << 16) + 1
init_seed(random_seed) == [hi |-> MixSeed(random_seed), lo |-> 1]

\* seed + i of the specs generators
SeedPlus(seed, i) ==
    [hi |-> seed.hi + ((seed.lo + i) \div HalfWord),
     lo |-> (seed.lo + i) % HalfWord]

\* The assertion of seed_roo_random, on the Python int.
SeedAssertPasses(seed) == ~(seed.hi = 0 /\ seed.lo = 0)

\* A generator that keeps the low 16 bits of the seed only.
SetSeedValue_KeepsLowHalf(seed) == [hi |-> 0, lo |-> seed.lo]

\* TRandom3.SetSeed keeps the low 32 bits of the seed it is given.
SetSeedValue(seed) == [hi |-> seed.hi % HalfWord, lo |-> seed.lo]

SeedInit ==
    \E b \in SeedBases :
        sd = [pc |-> "start", base |-> b, index |-> 0,
              seed |-> [hi |-> 0, lo |-> 0], used |-> [hi |-> 0, lo |-> 0]]

\* seed = init_seed(random_seed)
SeedDerive ==
    /\ sd.pc = "start"
    /\ sd.base >= 0 /\ sd.base < HalfWord
    /\ sd' = [sd EXCEPT !.pc = "derived", !.seed = init_seed(sd.base)]

\* The i-th Task is given seed + i and its worker calls seed_roo_random.
SeedTask ==
    /\ sd.pc = "derived"
    /\ \E i \in 0..MaxIndex :
        LET s == SeedPlus(sd.seed, i)
        IN  /\ SeedAssertPasses(s)
            /\ sd' = [sd EXCEPT !.pc = "seeded", !.index = i,
                                !.used = SetSeedValue(s)]

(***************************************************************************)
(* The seeds of two Tasks: of one request, or of two requests with         *)
(* different user seeds.  A task index is kept in halves as a seed is,     *)
(* [hi |-> i \div 2**16, lo |-> i % 2**16].                                *)
(***************************************************************************)
\* The second user seed is the first, its neighbour, or the one half the
\* range away.
PairInit ==
    \E b \in 0..(HalfWord - 1) :
      \E c \in {b, (b + 1) % HalfWord, (b + (HalfWord \div 2)) % HalfWord} :
        sd = [pc |-> "pair", base |-> b, other |-> c,
              seed |-> [hi |-> 0, lo |-> 0], seed2 |-> [hi |-> 0, lo |-> 0],
              i |-> [hi |-> 0, lo |-> 0], j |-> [hi |-> 0, lo |-> 0],
              used |-> [hi |-> 0, lo |-> 0], used2 |-> [hi |-> 0, lo |-> 0]]

\* seed = init_seed(random_seed), in each request
PairDerive ==
    /\ sd.pc = "pair"
    /\ sd' = [sd EXCEPT !.pc = "pair_derived",
                        !.seed = init_seed(sd.base),
                        !.seed2 = init_seed(sd.other)]

\* Task i of the first request and Task j of the second are given their
\* seeds, seed + i, and their workers call seed_roo_random.  The indices
\* tried for the first Task: the first, the last whose counter fits the low
\* half, the one that overflows it by one step, and 2**32; for the second:
\* the first, the last whose counter fits, and 2**16.
PairTask ==
    LET FirstIndices ==
            {[hi |-> 0, lo |-> 0], [hi |-> 0, lo |-> HalfWord - 2],
             [hi |-> 0, lo |-> HalfWord - 1], [hi |-> HalfWord, lo |-> 0]}
        SecondIndices ==
            {[hi |-> 0, lo |-> 0], [hi |-> 0, lo |-> HalfWord - 2],
             [hi |-> 1, lo |-> 0]}
        SeedPlusIndex(seed, i) ==
            [hi |-> SeedPlus(seed, i.lo).hi + i.hi, lo |-> SeedPlus(seed, i.lo).lo]
    IN  /\ sd.pc = "pair_derived"
        /\ \E i \in FirstIndices, j \in SecondIndices :
            LET s == SeedPlusIndex(sd.seed, i)
                t == SeedPlusIndex(sd.seed2, j)
            IN  /\ SeedAssertPasses(s)
                /\ SeedAssertPasses(t)
                /\ sd' = [sd EXCEPT !.pc = "pair_seeded", !.i = i, !.j = j,
                                    !.used = SetSeedValue(s),
                                    !.used2 = SetSeedValue(t)]

(***************************************************************************)
(* batch(n, k)                                                             *)
(***************************************************************************)
\* A chunk count that adds the remainder chunk also when there is no remainder.
ceil_n_over_k_PlusOne(n, k) == (n \div k) + 1

\* (n // k) + bool(n % k)
ceil_n_over_k(n, k) == (n \div k) + (IF n % k # 0 THEN 1 ELSE 0)

BatchInit ==
    \E n \in 0..MaxTotal, k \in 1..MaxChunk :
        bat = [pc |-> "yielding", n |-> n, k |-> k, i |-> 0, out |-> <<>>]

\* One turn of the loop: yield min(k, n - i*k)
BatchYield ==
    /\ bat.pc = "yielding"
    /\ bat.i < ceil_n_over_k(bat.n, bat.k)
    /\ bat' = [bat EXCEPT !.i = @ + 1,
                          !.out = Append(@, Min(bat.k, bat.n - bat.i * bat.k))]

\* The range is exhausted: the generator stops.
BatchStop ==
    /\ bat.pc = "yielding"
    /\ bat.i >= ceil_n_over_k(bat.n, bat.k)
    /\ bat' = [bat EXCEPT !.pc = "done"]

(***************************************************************************)
(* cascade(func, items)                                                    *)
(***************************************************************************)
\* The combine functions tried: addition of integers (associative and
\* commutative) and concatenation of sequences (associative only; the free
\* semigroup over the items).
Combine(f, a, b) == IF f = "add" THEN a + b ELSE a \o b

\* len(items) & -2
len_even(items) == Len(items) - (Len(items) % 2)

\* A round that puts the odd loner in front of the pairwise results.
CascadeRound_LonerFirst(f, items) ==
    LET even == SubSeq(items, 1, len_even(items))
        last == SubSeq(items, len_even(items) + 1, Len(items))
    IN  last \o
        [j \in 1..(Len(even) \div 2) |-> Combine(f, even[2 * j - 1], even[2 * j])]

\* A round that forgets the odd loner.
CascadeRound_DropsLoner(f, items) ==
    LET even == SubSeq(items, 1, len_even(items))
    IN  [j \in 1..(Len(even) \div 2) |-> Combine(f, even[2 * j - 1], even[2 * j])]

\* list(itertools.starmap(func, more_itertools.chunked(even, 2))) + last
CascadeRound(f, items) ==
    LET even == SubSeq(items, 1, len_even(items))
        last == SubSeq(items, len_even(items) + 1, Len(items))
    IN  [j \in 1..(Len(even) \div 2) |-> Combine(f, even[2 * j - 1], even[2 * j])]
        \o last

RECURSIVE SeqsOver(_, _)
SeqsOver(S, n) ==
    IF n = 0 THEN {<<>>}
    ELSE {Append(s, x) : s \in SeqsOver(S, n - 1), x \in S}

AddInputs == UNION {SeqsOver(-MaxAddend..MaxAddend, n) : n \in 1..MaxItems}
ConcatInputs == {[j \in 1..n |-> <<j>>] : n \in 1..MaxItems}

CascadeInit ==
    \E f \in {"add", "concat"} :
        \E input \in (IF f = "add" THEN AddInputs ELSE ConcatInputs) :
            casc = [pc |-> "loop", func |-> f, input |-> input, items |-> input,
                    rounds |-> 0, calls |-> 0, result |-> <<>>]

\* One turn of the while loop.
CascadeStep ==
    /\ casc.pc = "loop"
    /\ Len(casc.items) > 1
    /\ casc' = [casc EXCEPT !.items = CascadeRound(casc.func, casc.items),
                            !.rounds = @ + 1,
                            !.calls = @ + (len_even(casc.items) \div 2)]

\* return items[0]
CascadeReturn ==
    /\ casc.pc = "loop"
    /\ Len(casc.items) = 1
    /\ casc' = [casc EXCEPT !.pc = "done", !.result = casc.items[1]]

(***************************************************************************)
(* bailmap(func, iterable, processes)                                      *)
(*                                                                         *)
(* pool = multiprocessing.Pool(processes, maxtasksperchild=1) starts       *)
(* `processes' worker processes and the pool's handler threads;            *)
(* pool.imap(func, iterable, chunksize=1) queues one task per element and  *)
(* returns the iterator of the results; pool.close() stops the pool from   *)
(* accepting work and lets it wind down once the results are in.           *)
(***************************************************************************)
PoolIds == {"compute", "merge", "reduce"}

NoPool == [state |-> "none"]
NoPools == [p \in PoolIds |-> NoPool]
NoTask == [i |-> -1]                  \* also the None a queue carries as sentinel
IdleWorker == [st |-> "idle", task |-> NoTask, completed |-> 0]

\* The functions mapped: the caller's func raises for the element 0 and returns
\* a value that tells the elements apart otherwise.
Raised == [ok |-> FALSE, val |-> 0]
RECURSIVE Flatten(_)
\* A merge that returns its first result and adds none of the others to it.
Flatten_KeepsFirstOnly(ss) == IF ss = <<>> THEN <<>> ELSE Head(ss)

Flatten(ss) == IF ss = <<>> THEN <<>> ELSE Head(ss) \o Flatten(Tail(ss))

\* The batch functions of the pipeline return dumped results: the result of
\* a batch of toys is kept as the list of the one Task that made it, and the
\* merge of results (out.Add / out.Append in the order given) as the
\* concatenation of their lists.
Apply(f, arg) ==
    CASE f = "func" ->
            IF arg = 0 THEN Raised ELSE [ok |-> TRUE, val |-> arg + 10]
      [] f = "hypo_test_inversion_batch" -> [ok |-> TRUE, val |-> <<arg>>]
      [] f = "hypo_test_inversion_merge" -> [ok |-> TRUE, val |-> Flatten(arg)]

\* A pool whose task handler thread is never started: nothing is dispatched.
NewPool_NoTaskHandler(processes) ==
    [state |-> "closed",
     procs |-> processes,
     workers |-> [w \in 1..processes |-> IdleWorker],
     inq |-> <<>>, outq |-> <<>>,
     fed |-> 0, length |-> -1,
     index |-> 0, unsorted |-> {}, items |-> <<>>,
     cached |-> TRUE,
     wh |-> "run", th |-> "off", rh |-> "run"]

\* Pool(processes, maxtasksperchild=1); imap(...); close()
NewPool(processes) ==
    [state |-> "closed",
     procs |-> processes,
     workers |-> [w \in 1..processes |-> IdleWorker],
     inq |-> <<>>, outq |-> <<>>,
     fed |-> 0, length |-> -1,
     index |-> 0, unsorted |-> {}, items |-> <<>>,
     cached |-> TRUE,
     wh |-> "run", th |-> "feed", rh |-> "run"]

\* The processes in pool._pool: started and not yet joined.
PoolList(q) == {w \in DOMAIN q.workers : q.workers[w].st # "joined"}
Alive(q) == {w \in DOMAIN q.workers : q.workers[w].st \in {"idle", "busy"}}
InFlight(q) == {w \in DOMAIN q.workers : q.workers[w].st = "busy"}

\* A worker without maxtasksperchild: it never leaves its loop by itself.
WorkerContinues_NoLimit(completed) == TRUE

\* worker(): while maxtasks is None or (maxtasks and completed < maxtasks)
WorkerContinues(completed) == completed < MaxTasksPerChild

\* worker(): task = get(); None makes it leave the loop.  The idle processes
\* wait on the same queue and differ in nothing but their number, so the one
\* that gets the item is taken to be the first of them.
WorkerGet(p, w) ==
    LET q == pools[p] IN
    /\ q.state = "closed"
    /\ w \in DOMAIN q.workers
    /\ q.workers[w].st = "idle"
    /\ \A v \in DOMAIN q.workers : q.workers[v].st = "idle" => w <= v
    /\ q.inq # <<>>
    /\ pools' = [pools EXCEPT ![p] =
         [q EXCEPT !.inq = Tail(q.inq),
                   !.workers[w] =
                       IF Head(q.inq) = NoTask
                       THEN [@ EXCEPT !.st = "exited"]
                       ELSE [@ EXCEPT !.st = "busy", !.task = Head(q.inq)]]]

\* worker(): result = (True, func(*args)) or (False, e); put((job, i, result));
\* completed += 1; the process exits when the loop condition fails.
WorkerRun(p, w, f) ==
    LET q == pools[p] IN
    /\ q.state = "closed"
    /\ w \in DOMAIN q.workers
    /\ q.workers[w].st = "busy"
    /\ LET t == q.workers[w].task
           done == q.workers[w].completed + 1
       IN pools' = [pools EXCEPT ![p] =
            [q EXCEPT !.outq = Append(q.outq, [i |-> t.i, res |-> Apply(f, t.arg)]),
                      !.workers[w] =
                          [st |-> IF WorkerContinues(done) THEN "idle" ELSE "exited",
                           task |-> NoTask,
                           completed |-> done]]]

\* A repopulation that starts one process too many.
RepopulateCount_OffByOne(processes, remaining) == processes - remaining + 1

\* _repopulate_pool: for i in range(self._processes - len(self._pool))
RepopulateCount(processes, remaining) == processes - remaining

\* _handle_workers, one turn of its loop while the cache holds the job:
\* _maintain_pool joins the exited workers and starts their replacements.
MaintainPool(p) ==
    LET q == pools[p] IN
    /\ q.state = "closed"
    /\ q.wh = "run"
    /\ q.cached
    /\ \E w \in DOMAIN q.workers : q.workers[w].st = "exited"
    /\ LET joined == [w \in DOMAIN q.workers |->
                         IF q.workers[w].st = "exited"
                         THEN [q.workers[w] EXCEPT !.st = "joined"]
                         ELSE q.workers[w]]
           remaining == Cardinality({w \in DOMAIN joined : joined[w].st # "joined"})
           fresh == RepopulateCount(q.procs, remaining)
           n == Len(joined)
       IN pools' = [pools EXCEPT ![p] =
            [q EXCEPT !.workers =
                [w \in 1..(n + fresh) |-> IF w <= n THEN joined[w] ELSE IdleWorker]]]

\* _handle_workers leaves its loop once the pool is closed and the cache is
\* empty: taskqueue.put(None)
WorkerHandlerExit(p) ==
    LET q == pools[p] IN
    /\ q.state = "closed"
    /\ q.wh = "run"
    /\ ~q.cached
    /\ pools' = [pools EXCEPT ![p] = [q EXCEPT !.wh = "done"]]

\* _handle_tasks: put(task) for the next element of the iterable
TaskHandlerPut(p, arg) ==
    LET q == pools[p] IN
    /\ q.state = "closed"
    /\ q.th = "feed"
    /\ pools' = [pools EXCEPT ![p] =
         [q EXCEPT !.inq = Append(q.inq, [i |-> q.fed, arg |-> arg]),
                   !.fed = q.fed + 1]]

\* IMapIterator._set_length, called by _handle_tasks after the last element
SetLength(q) ==
    [q EXCEPT !.length = q.fed,
              !.cached = IF q.index = q.fed THEN FALSE ELSE q.cached,
              !.th = "wait"]

TaskHandlerSetLength(p) ==
    LET q == pools[p] IN
    /\ q.state = "closed"
    /\ q.th = "feed"
    /\ pools' = [pools EXCEPT ![p] = SetLength(q)]

\* A task handler that tells no worker that the work is over.
SentinelCount_None(q) == 0

\* _handle_tasks: for p in pool: put(None)
SentinelCount(q) == Cardinality(PoolList(q))

\* _handle_tasks got the sentinel of the worker handler: outqueue.put(None),
\* then one None per process of the pool.
TaskHandlerSentinel(p) ==
    LET q == pools[p] IN
    /\ q.state = "closed"
    /\ q.th = "wait"
    /\ q.wh = "done"
    /\ pools' = [pools EXCEPT ![p] =
         [q EXCEPT !.th = "done",
                   !.outq = Append(q.outq, [i |-> -1]),
                   !.inq = q.inq \o [j \in 1..SentinelCount(q) |-> NoTask]]]

RECURSIVE Drain(_, _, _)
\* while self._index in self._unsorted: move it to self._items
Drain(index, unsorted, items) ==
    IF \E r \in unsorted : r.i = index
    THEN LET r == CHOOSE r \in unsorted : r.i = index
         IN  Drain(index + 1, unsorted \ {r}, Append(items, r.res))
    ELSE [index |-> index, unsorted |-> unsorted, items |-> items]

\* A _set that files every result on arrival, as imap_unordered does.
IMapSet_Unordered(q, r) ==
    [q EXCEPT !.index = q.index + 1, !.items = Append(q.items, r.res),
              !.cached = IF q.index + 1 = q.length THEN FALSE ELSE q.cached]

\* IMapIterator._set(i, obj)
IMapSet(q, r) ==
    LET d == IF q.index = r.i
             THEN Drain(q.index + 1, q.unsorted, Append(q.items, r.res))
             ELSE [index |-> q.index, unsorted |-> q.unsorted \cup {r},
                   items |-> q.items]
    IN  [q EXCEPT !.index = d.index, !.unsorted = d.unsorted, !.items = d.items,
                  !.cached = IF d.index = q.length THEN FALSE ELSE q.cached]

\* _handle_results: task = get(); None ends the thread, a result is filed
\* with the job's iterator.
ResultHandlerGet(p) ==
    LET q == pools[p] IN
    /\ q.state = "closed"
    /\ q.rh = "run"
    /\ q.outq # <<>>
    /\ LET r == Head(q.outq)
           q1 == [q EXCEPT !.outq = Tail(q.outq)]
       IN pools' = [pools EXCEPT ![p] =
            IF r.i = -1 THEN [q1 EXCEPT !.rh = "done"] ELSE IMapSet(q1, r)]

\* IMapIterator.next() can return or raise: an item is waiting.
HasItem(q) == q.items # <<>>
\* IMapIterator.next() raises StopIteration.
Exhausted(q) == q.items = <<>> /\ q.index = q.length

(***************************************************************************)
(* One bailmap call and its consumer                                       *)
(***************************************************************************)
\* The iterables tried: the k-th element is k, or 0 for which func raises.
FuncInputs ==
    UNION {{[k \in 1..n |-> IF k \in bad THEN 0 ELSE k] : bad \in SUBSET (1..n)} :
           n \in 0..MaxInputs}

CallInit ==
    /\ \E inputs \in FuncInputs, processes \in 1..MaxProcs :
        call = [pc |-> "start", inputs |-> inputs, procs |-> processes,
                waiting |-> FALSE, received |-> <<>>]
    /\ pools = NoPools

\* bailmap(func, inputs, processes) returns the iterator.
Bailmap ==
    /\ call.pc = "start"
    /\ pools' = [pools EXCEPT !["compute"] = NewPool(call.procs)]
    /\ call' = [call EXCEPT !.pc = "consuming"]
    /\ UNCHANGED <<sd, bat, casc, pipe, req, ulr, lim, tex>>

\* The steps of the pool's processes and threads during the call.
Workers(p) == IF pools[p].state = "none" THEN {} ELSE DOMAIN pools[p].workers

CallWorkerGet == \E w \in Workers("compute") : WorkerGet("compute", w) /\ UNCHANGED <<call, sd, bat, casc, pipe, req, ulr, lim, tex>>
CallWorkerRun == \E w \in Workers("compute") : WorkerRun("compute", w, "func") /\ UNCHANGED <<call, sd, bat, casc, pipe, req, ulr, lim, tex>>
CallMaintainPool == MaintainPool("compute") /\ UNCHANGED <<call, sd, bat, casc, pipe, req, ulr, lim, tex>>
CallWorkerHandlerExit == WorkerHandlerExit("compute") /\ UNCHANGED <<call, sd, bat, casc, pipe, req, ulr, lim, tex>>
CallTaskHandlerPut ==
    /\ pools["compute"].state = "closed"
    /\ pools["compute"].fed < Len(call.inputs)
    /\ TaskHandlerPut("compute", call.inputs[pools["compute"].fed + 1])
    /\ UNCHANGED <<call, sd, bat, casc, pipe, req, ulr, lim, tex>>
CallTaskHandlerSetLength ==
    /\ pools["compute"].state = "closed"
    /\ pools["compute"].fed = Len(call.inputs)
    /\ TaskHandlerSetLength("compute")
    /\ UNCHANGED <<call, sd, bat, casc, pipe, req, ulr, lim, tex>>
CallTaskHandlerSentinel == TaskHandlerSentinel("compute") /\ UNCHANGED <<call, sd, bat, casc, pipe, req, ulr, lim, tex>>
CallResultHandlerGet == ResultHandlerGet("compute") /\ UNCHANGED <<call, sd, bat, casc, pipe, req, ulr, lim, tex>>

\* A next() that returns the exception of a task as if it were its value.
NextOutcome_ReturnsFailure(item) == [ok |-> TRUE, val |-> item.val]

\* IMapIterator.next(): success, value = item; return value if success,
\* raise value otherwise.
NextOutcome(item) ==
    IF item.ok THEN [ok |-> TRUE, val |-> item.val] ELSE [ok |-> FALSE, val |-> item.val]

\* The consumer pulls: it calls next(mapped), which waits for an item or for
\* the end of the sequence.
ConsumerPull ==
    /\ call.pc = "consuming"
    /\ ~call.waiting
    /\ call' = [call EXCEPT !.waiting = TRUE]
    /\ UNCHANGED <<pools, sd, bat, casc, pipe, req, ulr, lim, tex>>

\* The pull ends with the next output: next(mapped) returns the value or
\* raises the exception of the task.
ConsumerNext ==
    /\ call.pc = "consuming"
    /\ call.waiting
    /\ HasItem(pools["compute"])
    /\ call' = [call EXCEPT !.waiting = FALSE,
                            !.received = Append(@, NextOutcome(Head(pools["compute"].items)))]
    /\ pools' = [pools EXCEPT !["compute"].items = Tail(@)]
    /\ UNCHANGED <<sd, bat, casc, pipe, req, ulr, lim, tex>>

\* next(mapped) raises StopIteration.
ConsumerStop ==
    /\ call.pc = "consuming"
    /\ call.waiting
    /\ Exhausted(pools["compute"])
    /\ call' = [call EXCEPT !.pc = "done", !.waiting = FALSE]
    /\ UNCHANGED <<pools, sd, bat, casc, pipe, req, ulr, lim, tex>>

(***************************************************************************)
(* hypo_test_inversion / hypo_test with a toy calculator                   *)
(*                                                                         *)
(* hypo_test is the same pipeline over a single point.  The request is     *)
(* modelled for tasks that do not raise, with the arguments main lets      *)
(* through: ntoys, batch_size and processes positive, any whole number of  *)
(* points (a negative one gives no point, as 0 does).                      *)
(***************************************************************************)
\* list(batch(n, k))
BatchList(n, k) == [j \in 1..ceil_n_over_k(n, k) |-> Min(k, n - (j - 1) * k)]

\* Specs that take the batches of all points in turn: first batch of every
\* point, then the second, and so on.
Specs_BatchMajor(count, ntoys, batch_size, seed) ==
    LET sizes == BatchList(ntoys, batch_size)
        nb == Len(sizes)
    IN  [t \in 1..(count * nb) |->
            [point |-> ((t - 1) % count) + 1,
             nbatch |-> sizes[((t - 1) \div count) + 1],
             i |-> t - 1,
             seed |-> SeedPlus(seed, t - 1)]]

\* The specs generator: the (point, nbatch) pairs of all points chained in
\* order, numbered by enumerate; Task i is given seed + i.
Specs(count, ntoys, batch_size, seed) ==
    LET sizes == BatchList(ntoys, batch_size)
        nb == Len(sizes)
    IN  [t \in 1..(count * nb) |->
            [point |-> ((t - 1) \div nb) + 1,
             nbatch |-> sizes[((t - 1) % nb) + 1],
             i |-> t - 1,
             seed |-> SeedPlus(seed, t - 1)]]

\* The user seeds of the requests: the least, and the one whose mixed half
\* is 0xffff.
PipeSeeds == {0, 34937}

\* The function a pool maps.
PoolFunc(p) ==
    IF p = "compute" THEN "hypo_test_inversion_batch" ELSE "hypo_test_inversion_merge"

PipeInit ==
    /\ \E ntoys \in 1..MaxToys, batch_size \in 1..MaxBatch,
          count \in 0..MaxPoints, processes \in 1..MaxProcs,
          random_seed \in PipeSeeds :
        pipe = [pc |-> "start", ntoys |-> ntoys, batch_size |-> batch_size,
                count |-> count, procs |-> processes,
                random_seed |-> random_seed, seed |-> init_seed(random_seed),
                chunk |-> <<>>, chunker |-> "open",
                items |-> <<>>, j |-> 0, results |-> <<>>, rounds |-> 0,
                result |-> <<>>]
    /\ pools = NoPools

PipeSpecs == Specs(pipe.count, pipe.ntoys, pipe.batch_size, pipe.seed)

PipeRest == <<sd, bat, casc, call, req, ulr, lim, tex>>

\* inversions = bailmap(hypo_test_inversion_batch, specs, processes)
PipeBailmapCompute ==
    /\ pipe.pc = "start"
    /\ pools' = [pools EXCEPT !["compute"] = NewPool(pipe.procs)]
    /\ pipe' = [pipe EXCEPT !.pc = "computing"]
    /\ UNCHANGED PipeRest

\* batches = more_itertools.chunked(inversions, batch_size)
\* merges = bailmap(hypo_test_inversion_merge, batches)
PipeBailmapMerge ==
    /\ pipe.pc = "computing"
    /\ pools' = [pools EXCEPT !["merge"] = NewPool(CpuCount)]
    /\ pipe' = [pipe EXCEPT !.pc = "collect"]
    /\ UNCHANGED PipeRest

PipeWorkerGet ==
    \E p \in PoolIds : \E w \in Workers(p) :
        WorkerGet(p, w) /\ UNCHANGED <<pipe, PipeRest>>
PipeWorkerRun ==
    \E p \in PoolIds : \E w \in Workers(p) :
        WorkerRun(p, w, PoolFunc(p)) /\ UNCHANGED <<pipe, PipeRest>>
PipeMaintainPool ==
    \E p \in PoolIds : MaintainPool(p) /\ UNCHANGED <<pipe, PipeRest>>
PipeWorkerHandlerExit ==
    \E p \in PoolIds : WorkerHandlerExit(p) /\ UNCHANGED <<pipe, PipeRest>>
PipeTaskHandlerSentinel ==
    \E p \in PoolIds : TaskHandlerSentinel(p) /\ UNCHANGED <<pipe, PipeRest>>
PipeResultHandlerGet ==
    \E p \in PoolIds : ResultHandlerGet(p) /\ UNCHANGED <<pipe, PipeRest>>

\* The task handler of the compute pool draws the next Task from specs.
PipeComputePut ==
    /\ pools["compute"].state = "closed"
    /\ pools["compute"].fed < Len(PipeSpecs)
    /\ TaskHandlerPut("compute", PipeSpecs[pools["compute"].fed + 1])
    /\ UNCHANGED <<pipe, PipeRest>>

PipeComputeSetLength ==
    /\ pools["compute"].state = "closed"
    /\ pools["compute"].fed = Len(PipeSpecs)
    /\ TaskHandlerSetLength("compute")
    /\ UNCHANGED <<pipe, PipeRest>>

\* The task handler of the merge pool draws from chunked(inversions,
\* batch_size), which pulls the next result of the compute pool; a chunk that
\* is full becomes the next merge task.
PipeChunkPull ==
    LET c == pools["compute"]
        m == pools["merge"]
    IN  /\ m.state = "closed"
        /\ m.th = "feed"
        /\ pipe.chunker = "open"
        /\ HasItem(c)
        /\ LET chunk == Append(pipe.chunk, NextOutcome(Head(c.items)).val)
               full == Len(chunk) = pipe.batch_size
               c1 == [c EXCEPT !.items = Tail(c.items)]
           IN  /\ pipe' = [pipe EXCEPT !.chunk = IF full THEN <<>> ELSE chunk]
               /\ pools' = [pools EXCEPT
                    !["compute"] = c1,
                    !["merge"] =
                        IF full
                        THEN [m EXCEPT !.inq = Append(m.inq, [i |-> m.fed, arg |-> chunk]),
                                       !.fed = m.fed + 1]
                        ELSE m]
        /\ UNCHANGED PipeRest

\* inversions is exhausted: a chunk left over becomes the last merge task.
PipeChunkEnd ==
    LET c == pools["compute"]
        m == pools["merge"]
    IN  /\ m.state = "closed"
        /\ m.th = "feed"
        /\ pipe.chunker = "open"
        /\ Exhausted(c)
        /\ pipe' = [pipe EXCEPT !.chunk = <<>>, !.chunker = "ended"]
        /\ pools' = [pools EXCEPT !["merge"] =
             IF pipe.chunk # <<>>
             THEN [m EXCEPT !.inq = Append(m.inq, [i |-> m.fed, arg |-> pipe.chunk]),
                            !.fed = m.fed + 1]
             ELSE m]
        /\ UNCHANGED PipeRest

PipeMergeSetLength ==
    /\ pools["merge"].state = "closed"
    /\ pipe.chunker = "ended"
    /\ TaskHandlerSetLength("merge")
    /\ UNCHANGED <<pipe, PipeRest>>

\* cascade: items = list(items), one result of the merge pool at a time
PipeCollect ==
    /\ pipe.pc = "collect"
    /\ HasItem(pools["merge"])
    /\ pipe' = [pipe EXCEPT !.items = Append(@, NextOutcome(Head(pools["merge"].items)).val)]
    /\ pools' = [pools EXCEPT !["merge"].items = Tail(@)]
    /\ UNCHANGED PipeRest

PipeCollected ==
    /\ pipe.pc = "collect"
    /\ Exhausted(pools["merge"])
    /\ pipe' = [pipe EXCEPT !.pc = "cascade"]
    /\ UNCHANGED <<pools, PipeRest>>

\* reduction(a, b): bailmap(hypo_test_inversion_merge, [(a, b)], 1) for the
\* next pair of the round.  The pool of the previous reduction has handed
\* over its only result and is left to wind down.
PipeReduceCall ==
    /\ pipe.pc = "cascade"
    /\ Len(pipe.items) > 1
    /\ pools' = [pools EXCEPT !["reduce"] = NewPool(1)]
    /\ pipe' = [pipe EXCEPT !.pc = "reducing", !.j = @ + 1]
    /\ UNCHANGED PipeRest

PipePair == <<pipe.items[2 * pipe.j - 1], pipe.items[2 * pipe.j]>>

PipeReducePut ==
    /\ pipe.pc = "reducing"
    /\ pools["reduce"].state = "closed"
    /\ pools["reduce"].fed < 1
    /\ TaskHandlerPut("reduce", PipePair)
    /\ UNCHANGED <<pipe, PipeRest>>

PipeReduceSetLength ==
    /\ pools["reduce"].state = "closed"
    /\ pools["reduce"].fed = 1
    /\ TaskHandlerSetLength("reduce")
    /\ UNCHANGED <<pipe, PipeRest>>

\* next(...) of the reduction returns; after the last pair of the round
\* items = list(starmap(func, pairs)) + last
PipeReduceNext ==
    /\ pipe.pc = "reducing"
    /\ HasItem(pools["reduce"])
    /\ LET results == Append(pipe.results, NextOutcome(Head(pools["reduce"].items)).val)
           last == SubSeq(pipe.items, len_even(pipe.items) + 1, Len(pipe.items))
           roundover == 2 * pipe.j = len_even(pipe.items)
       IN  pipe' = [pipe EXCEPT
                !.pc = "cascade",
                !.results = IF roundover THEN <<>> ELSE results,
                !.items = IF roundover THEN results \o last ELSE @,
                !.j = IF roundover THEN 0 ELSE @,
                !.rounds = IF roundover THEN @ + 1 ELSE @]
    /\ pools' = [pools EXCEPT !["reduce"].items = Tail(@)]
    /\ UNCHANGED PipeRest

\* cascade: return items[0]
PipeReturn ==
    /\ pipe.pc = "cascade"
    /\ Len(pipe.items) = 1
    /\ pipe' = [pipe EXCEPT !.pc = "done", !.result = pipe.items[1]]
    /\ UNCHANGED <<pools, PipeRest>>

\* cascade: return items[0] of an empty list raises IndexError
PipeIndexError ==
    /\ pipe.pc = "cascade"
    /\ Len(pipe.items) = 0
    /\ pipe' = [pipe EXCEPT !.pc = "raised"]
    /\ UNCHANGED <<pools, PipeRest>>

(***************************************************************************)
(* The entry of hypo_test_inversion / hypo_test: the checks on the         *)
(* arguments, up to the first pool the request makes.                      *)
(*                                                                         *)
(* A member of the enum CalculatorType and the int that is its value are   *)
(* different Python objects, which never compare equal.                    *)
(***************************************************************************)
CalculatorValue ==
    [frequentist |-> 0, hybrid |-> 1, asymptotic |-> 2, asimov |-> 3]

CalculatorType == DOMAIN CalculatorValue

Member(name) == [kind |-> "CalculatorType", id |-> name]

PyInt(n) == [kind |-> "int", id |-> ToString(n)]

\* TOY_CALCULATORS = {CalculatorType.frequentist, CalculatorType.hybrid}
TOY_CALCULATORS == {Member("frequentist"), Member("hybrid")}

\* calculatorType.value
ValueOf(calculatorType) == PyInt(CalculatorValue[calculatorType.id])

\* if calculatorType.value in TOY_CALCULATORS:
ToyGuard(calculatorType) == ValueOf(calculatorType) \in TOY_CALCULATORS

\* The user seeds a request may be called with, in and out of [0, 2**16).
EntrySeeds == {-1, 0, HalfWord - 1, HalfWord}

EntryInit ==
    \E c \in CalculatorType, n \in -1..MaxToys, k \in -1..MaxBatch,
       s \in EntrySeeds, p \in 1..MaxProcs :
        req = [pc |-> "called", calculatorType |-> Member(c), ntoys |-> n,
               batch_size |-> k, random_seed |-> s, processes |-> p]

\* if calculatorType.value in TOY_CALCULATORS:
\*     assert ntoys > 0; assert batch_size > 0
EntryAsserts ==
    /\ req.pc = "called"
    /\ IF ToyGuard(req.calculatorType) /\ ~(req.ntoys > 0 /\ req.batch_size > 0)
       THEN req' = [req EXCEPT !.pc = "raised"]
       ELSE req' = [req EXCEPT !.pc = "asserted"]
    /\ UNCHANGED pools

\* seed = init_seed(random_seed), which asserts 0 <= random_seed < 2**16
EntryInitSeed ==
    /\ req.pc = "asserted"
    /\ IF 0 <= req.random_seed /\ req.random_seed < HalfWord
       THEN req' = [req EXCEPT !.pc = "seeded"]
       ELSE req' = [req EXCEPT !.pc = "raised"]
    /\ UNCHANGED pools

\* if calculatorType not in TOY_CALCULATORS: return ..._no_toys(...)
EntryNoToys ==
    /\ req.pc = "seeded"
    /\ req.calculatorType \notin TOY_CALCULATORS
    /\ req' = [req EXCEPT !.pc = "no_toys"]
    /\ UNCHANGED pools

\* inversions = bailmap(hypo_test_inversion_batch, specs, processes): the
\* generators before it run nothing; the pool starts its worker processes.
EntryBailmap ==
    /\ req.pc = "seeded"
    /\ req.calculatorType \in TOY_CALCULATORS
    /\ req' = [req EXCEPT !.pc = "spawned"]
    /\ pools' = [pools EXCEPT !["compute"] = NewPool(req.processes)]

(***************************************************************************)
(* upper_limit_results.py: execute, load, merge, merge_batch, dump.        *)
(*                                                                         *)
(* A dumped result is kept as the list of the seeds whose toys are in it,  *)
(* None as the empty list; merging (Add, Append) concatenates.  The seed   *)
(* of a record is pickled as an int or as a frozenset of ints.  merge maps *)
(* merge_batch with bailmap, whose results come in the order of the        *)
(* chunks and whose first failure is raised where cascade pulls it.        *)
(***************************************************************************)
\* The values of -seed tried.
MergeSeeds == {1, 2, 3}

IntSeed(s) == [kind |-> "int", n |-> s, set |-> {}]
FrozenSeed(S) == [kind |-> "frozenset", n |-> 0, set |-> S]

RECURSIVE SetToSeq(_)
SetToSeq(S) ==
    IF S = {} THEN <<>>
    ELSE LET x == CHOOSE x \in S : \A y \in S : x <= y
         IN  <<x>> \o SetToSeq(S \ {x})

\* A file that does not unpickle to a record.
InvalidFile == [valid |-> FALSE, seed |-> IntSeed(0), inv |-> <<>>, test |-> <<>>]

\* The *_dump.pickle files of earlier runs: of a run that made its results
\* with one seed, or of a run that merged the results of several.
StoredFiles ==
    {[valid |-> TRUE, seed |-> IntSeed(s), inv |-> <<s>>, test |-> <<s>>] :
        s \in MergeSeeds}
    \cup {[valid |-> TRUE, seed |-> FrozenSeed(S), inv |-> SetToSeq(S),
           test |-> SetToSeq(S)] : S \in {T \in SUBSET MergeSeeds : Cardinality(T) >= 2}}
    \cup {InvalidFile}

LoadLists == UNION {[1..n -> StoredFiles] : n \in 0..MaxLoad}

NoneTrio == [none |-> TRUE, seed_to_filename |-> {}, inv |-> <<>>, test |-> <<>>]

\* load: if isinstance(seed, int): seed = [seed]
\*       seed_to_filename = {seed_i: filename for seed_i in seed}
SeedKeys(seed) == IF seed.kind = "int" THEN {seed.n} ELSE seed.set

\* load: one trio per file name, None for a file that fails to load
Load(file) ==
    IF file.valid
    THEN [none |-> FALSE, seed_to_filename |-> SeedKeys(file.seed),
          inv |-> file.inv, test |-> file.test]
    ELSE NoneTrio

\* merge_batch raised ValueError
BatchRaised == [ok |-> FALSE, trio |-> NoneTrio]

\* A merge_batch that does not look for repeated seeds.
SeedReused_NeverLooks(seed_to_filename, trio) == FALSE

\* for seed_j in seed_to_filename_i: if seed_j in seed_to_filename: raise
SeedReused(seed_to_filename, trio) ==
    \E seed_j \in trio.seed_to_filename : seed_j \in seed_to_filename

RECURSIVE MergeLoop(_, _)
\* merge_batch: for trio in specs
MergeLoop(acc, specs) ==
    IF specs = <<>> THEN [ok |-> TRUE, trio |-> acc]
    ELSE LET trio == Head(specs) IN
         IF trio.none THEN BatchRaised
         ELSE IF SeedReused(acc.seed_to_filename, trio) THEN BatchRaised
         ELSE MergeLoop(
                [none |-> FALSE,
                 seed_to_filename |-> acc.seed_to_filename \cup trio.seed_to_filename,
                 inv |-> acc.inv \o trio.inv,
                 test |-> acc.test \o trio.test],
                Tail(specs))

merge_batch(specs) ==
    MergeLoop([none |-> FALSE, seed_to_filename |-> {}, inv |-> <<>>, test |-> <<>>],
              specs)

\* more_itertools.chunked(specs, n): its c-th chunk and their number
Chunk(specs, n, c) == SubSeq(specs, (c - 1) * n + 1, Min(c * n, Len(specs)))
ChunkCount(specs, n) == ceil_n_over_k(Len(specs), n)

\* A merge that returns a frozenset also when it holds one seed.
MergedSeed_AlwaysFrozenset(keys) == FrozenSeed(keys)

\* seed = frozenset(seed_to_filename.keys())
\* if len(seed) == 1: seed = more_itertools.one(seed)
MergedSeed(keys) ==
    IF Cardinality(keys) = 1 THEN IntSeed(CHOOSE s \in keys : TRUE)
    ELSE FrozenSeed(keys)

\* An execute that dumps what it has before it merges.
ExecuteOrder_DumpBeforeMerge == <<"invert", "test", "dump", "merge", "output">>

\* execute: the order of its steps
ExecuteOrder == <<"invert", "test", "merge", "dump", "output">>

\* The step of execute that follows `step'.
After(step) ==
    LET i == CHOOSE i \in 1..Len(ExecuteOrder) : ExecuteOrder[i] = step
    IN  IF i = Len(ExecuteOrder) THEN "done" ELSE ExecuteOrder[i + 1]

ExecInit ==
    \E ops \in SUBSET {"invert", "test", "dump", "output"}, seed \in MergeSeeds,
       load \in LoadLists, nbatch \in 1..MaxNBatch,
       old \in {<<>>} \cup {<<f>> : f \in {g \in StoredFiles : g.seed = IntSeed(1)}} :
        ulr = [pc |-> ExecuteOrder[1], run |-> 1, operations |-> ops,
               seed |-> seed, load |-> load, nbatch |-> nbatch,
               inv |-> <<>>, test |-> <<>>, ret_seed |-> IntSeed(seed),
               specs |-> <<>>, items |-> <<>>, j |-> 0, results |-> <<>>,
               old |-> old, disk |-> old, output |-> FALSE]

\* if do_invert: invert_dumps = invert(args), which returns or raises
ExecInvert ==
    /\ ulr.pc = "invert"
    /\ IF "invert" \in ulr.operations
       THEN \/ ulr' = [ulr EXCEPT !.pc = After("invert"), !.inv = <<ulr.seed>>]
            \/ ulr' = [ulr EXCEPT !.pc = "raised"]
       ELSE ulr' = [ulr EXCEPT !.pc = After("invert"), !.inv = <<>>]

\* if do_test: test_dumps = test(args), which returns or raises
ExecTest ==
    /\ ulr.pc = "test"
    /\ IF "test" \in ulr.operations
       THEN \/ ulr' = [ulr EXCEPT !.pc = After("test"), !.test = <<ulr.seed>>]
            \/ ulr' = [ulr EXCEPT !.pc = "raised"]
       ELSE ulr' = [ulr EXCEPT !.pc = After("test"), !.test = <<>>]

\* merge: without -load the results of this call are returned as they are;
\* otherwise specs is the loaded trios and, if this call made results, its own.
MergeCall ==
    /\ ulr.pc = "merge"
    /\ IF ulr.load = <<>>
       THEN ulr' = [ulr EXCEPT !.pc = After("merge"), !.ret_seed = IntSeed(ulr.seed)]
       ELSE LET loaded == [i \in 1..Len(ulr.load) |-> Load(ulr.load[i])]
                own == [none |-> FALSE, seed_to_filename |-> {ulr.seed},
                        inv |-> ulr.inv, test |-> ulr.test]
            IN  ulr' = [ulr EXCEPT
                    !.pc = "merging",
                    !.specs = IF ulr.inv # <<>> \/ ulr.test # <<>>
                              THEN Append(loaded, own) ELSE loaded,
                    !.items = <<>>, !.j = 0, !.results = <<>>]

\* cascade: items = list(out): the next result of
\* bailmap(merge_batch, chunked(specs, nbatch), processes), or its failure
MergeCollect ==
    /\ ulr.pc = "merging"
    /\ Len(ulr.items) < ChunkCount(ulr.specs, ulr.nbatch)
    /\ LET r == merge_batch(Chunk(ulr.specs, ulr.nbatch, Len(ulr.items) + 1))
       IN  IF r.ok
           THEN ulr' = [ulr EXCEPT !.items = Append(@, r.trio)]
           ELSE ulr' = [ulr EXCEPT !.pc = "raised"]

MergeCollected ==
    /\ ulr.pc = "merging"
    /\ Len(ulr.items) = ChunkCount(ulr.specs, ulr.nbatch)
    /\ ulr' = [ulr EXCEPT !.pc = "cascade"]

\* cascade: reduction(a, b) = next(bailmap(merge_batch, [(a, b)], 1)) for the
\* next pair; after the last pair items = list(starmap(func, pairs)) + last
MergeReduce ==
    /\ ulr.pc = "cascade"
    /\ Len(ulr.items) > 1
    /\ LET j == ulr.j + 1
           r == merge_batch(<<ulr.items[2 * j - 1], ulr.items[2 * j]>>)
           results == Append(ulr.results, r.trio)
           last == SubSeq(ulr.items, len_even(ulr.items) + 1, Len(ulr.items))
           roundover == 2 * j = len_even(ulr.items)
       IN  IF r.ok
           THEN ulr' = [ulr EXCEPT
                    !.results = IF roundover THEN <<>> ELSE results,
                    !.items = IF roundover THEN results \o last ELSE @,
                    !.j = IF roundover THEN 0 ELSE j]
           ELSE ulr' = [ulr EXCEPT !.pc = "raised"]

\* cascade returns items[0]; merge returns (seed, invert_dumps, test_dumps)
MergeReturn ==
    /\ ulr.pc = "cascade"
    /\ Len(ulr.items) = 1
    /\ ulr' = [ulr EXCEPT
            !.pc = After("merge"),
            !.ret_seed = MergedSeed(ulr.items[1].seed_to_filename),
            !.inv = ulr.items[1].inv,
            !.test = ulr.items[1].test]

\* if do_dump: dump(args, (seed, invert_dumps, test_dumps))
ExecDump ==
    /\ ulr.pc = "dump"
    /\ ulr' = [ulr EXCEPT
            !.pc = After("dump"),
            !.disk = IF "dump" \in ulr.operations
                     THEN <<[valid |-> TRUE, seed |-> ulr.ret_seed,
                             inv |-> ulr.inv, test |-> ulr.test]>>
                     ELSE @]

\* if do_output: output(args, invert_dumps, test_dumps)
ExecOutput ==
    /\ ulr.pc = "output"
    /\ ulr' = [ulr EXCEPT !.pc = After("output"),
                          !.output = "output" \in ulr.operations]

\* A later run that only merges: it loads the file this run dumped and one
\* more file.
ExecAgain ==
    /\ ulr.pc = "done"
    /\ ulr.run = 1
    /\ "dump" \in ulr.operations
    /\ \E f \in StoredFiles, first \in BOOLEAN :
        ulr' = [ulr EXCEPT
            !.pc = ExecuteOrder[1], !.run = 2, !.operations = {},
            !.load = IF first THEN <<f, ulr.disk[1]>> ELSE <<ulr.disk[1], f>>,
            !.inv = <<>>, !.test = <<>>, !.ret_seed = IntSeed(ulr.seed),
            !.specs = <<>>, !.items = <<>>, !.j = 0, !.results = <<>>,
            !.old = ulr.disk, !.output = FALSE]

(***************************************************************************)
(* upper_limit_results.output: CLb at the observed upper limit.            *)
(*                                                                         *)
(* The scanned points and the limit are whole numbers here; the CLb value  *)
(* interpolated is kept as the fraction num / den.                         *)
(***************************************************************************)
\* The scans tried: up to MaxScan different points out of 0..MaxX in the
\* order the result holds them, with CLb 0 or 1 at each.
ScanPoints ==
    UNION {{xs \in [1..n -> 0..MaxX] : \A a, b \in 1..n : a # b => xs[a] # xs[b]} :
           n \in 1..MaxScan}

RECURSIVE Sorted(_)
\* sorted(xs)
Sorted(xs) ==
    IF xs = <<>> THEN <<>>
    ELSE LET i == CHOOSE i \in 1..Len(xs) : \A j \in 1..Len(xs) : xs[i] <= xs[j]
         IN  <<xs[i]>> \o Sorted([j \in 1..(Len(xs) - 1) |->
                                     IF j < i THEN xs[j] ELSE xs[j + 1]])

\* bisect.bisect_right(xs, x), as an index that counts from 0
bisect_right(xs, x) == Cardinality({i \in 1..Len(xs) : xs[i] <= x})

\* if xs[0] <= visobs < xs[-1]:
InRange(xs, visobs) == xs[1] <= visobs /\ visobs < xs[Len(xs)]

OutputInit ==
    \E points \in ScanPoints, visobs \in -1..(MaxX + 1) :
      \E clbs \in [1..Len(points) -> 0..1] :
        lim = [pc |-> "called", points |-> points, clbs |-> clbs,
               visobs |-> visobs, xs |-> <<>>, warned |-> FALSE,
               clb |-> [num |-> 0, den |-> 1]]

\* xs = sorted(map(invert_result.GetXValue, range(invert_result.ArraySize())))
OutputSort ==
    /\ lim.pc = "called"
    /\ lim' = [lim EXCEPT !.pc = "sorted", !.xs = Sorted(lim.points)]

\* The true branch: CLb interpolated between the scanned points around visobs
OutputInterpolate ==
    /\ lim.pc = "sorted"
    /\ InRange(lim.xs, lim.visobs)
    /\ LET ihi == bisect_right(lim.xs, lim.visobs)
           xhi == lim.xs[ihi + 1]
           xlo == lim.xs[ihi]
           bhi == lim.clbs[ihi + 1]
           blo == lim.clbs[ihi]
       IN  lim' = [lim EXCEPT
                !.pc = "done",
                !.clb = [num |-> (bhi - blo) * (lim.visobs - xhi) + bhi * (xhi - xlo),
                         den |-> xhi - xlo]]

\* The else branch: LOGGER.warning("Upper limit %r out of range ..."); clb = 0.0
OutputFallback ==
    /\ lim.pc = "sorted"
    /\ ~InRange(lim.xs, lim.visobs)
    /\ lim' = [lim EXCEPT !.pc = "done", !.warned = TRUE,
                          !.clb = [num |-> 0, den |-> 1]]

(***************************************************************************)
(* upper_limit_results.textable: the caption texts of the test statistic   *)
(* and of the calculator.                                                  *)
(***************************************************************************)
TestStatisticValue ==
    [simple_likelihood_ratio |-> 0, profile_likelihood_ratio |-> 1,
     profile_likelihood |-> 2, profile_likelihood_one_sided |-> 3,
     max_likelihood |-> 4]

TestStatistic == DOMAIN TestStatisticValue

StatisticMember(name) == [kind |-> "TestStatistic", id |-> name]

\* The values textable is tried with as `statistic': the members, their int
\* values, and a member of the other enum.
StatisticArguments ==
    {StatisticMember(name) : name \in TestStatistic}
    \cup {PyInt(TestStatisticValue[name]) : name \in TestStatistic}
    \cup {Member("asymptotic")}

\* The values textable is tried with as `calculator'.
CalculatorArguments ==
    {Member(name) : name \in CalculatorType}
    \cup {PyInt(CalculatorValue[name]) : name \in CalculatorType}
    \cup {StatisticMember("profile_likelihood")}

NoText == [ok |-> FALSE, text |-> ""]

\* if statistic is TestStatistic.simple_likelihood_ratio: ... elif ... else: raise
StatisticText(statistic) ==
    IF statistic = StatisticMember("simple_likelihood_ratio")
    THEN [ok |-> TRUE, text |-> "simple likelihood ratio"]
    ELSE IF statistic = StatisticMember("profile_likelihood_ratio")
    THEN [ok |-> TRUE, text |-> "profile likelihood ratio"]
    ELSE IF statistic = StatisticMember("profile_likelihood")
    THEN [ok |-> TRUE, text |-> "profile likelihood"]
    ELSE IF statistic = StatisticMember("profile_likelihood_one_sided")
    THEN [ok |-> TRUE, text |-> "one-sided profile likelihood"]
    ELSE NoText

\* if calculator is CalculatorType.frequentist: ... elif ... else: raise
CalculatorText(calculator) ==
    IF calculator = Member("frequentist")
    THEN [ok |-> TRUE, text |-> "nuisance parameters at their best-fit values"]
    ELSE IF calculator = Member("hybrid")
    THEN [ok |-> TRUE, text |-> "nuisance parameters sampled from prior distributions"]
    ELSE IF calculator = Member("asymptotic")
    THEN [ok |-> TRUE, text |-> "asymptotic approximation"]
    ELSE IF calculator = Member("asimov")
    THEN [ok |-> TRUE, text |-> "asymptotic approximation with Asimov data"]
    ELSE NoText

TextableInit ==
    \E statistic \in StatisticArguments, calculator \in CalculatorArguments,
       use_cls \in BOOLEAN :
        tex = [pc |-> "called", statistic |-> statistic, calculator |-> calculator,
               use_cls |-> use_cls, prescription |-> "",
               statistic_text |-> "", calculator_text |-> ""]

\* if use_cls: prescription = CLs else: prescription = CLs+b
TextablePrescription ==
    /\ tex.pc = "called"
    /\ tex' = [tex EXCEPT !.pc = "statistic",
                          !.prescription = IF tex.use_cls THEN "CLs" ELSE "CLs+b"]

\* The chain over the members of TestStatistic, ValueError at its end
TextableStatistic ==
    /\ tex.pc = "statistic"
    /\ LET t == StatisticText(tex.statistic)
       IN  IF t.ok
           THEN tex' = [tex EXCEPT !.pc = "calculator", !.statistic_text = t.text]
           ELSE tex' = [tex EXCEPT !.pc = "raised"]

\* The chain over the members of CalculatorType, ValueError at its end
TextableCalculator ==
    /\ tex.pc = "calculator"
    /\ LET t == CalculatorText(tex.calculator)
       IN  IF t.ok
           THEN tex' = [tex EXCEPT !.pc = "caption", !.calculator_text = t.text]
           ELSE tex' = [tex EXCEPT !.pc = "raised"]

\* table += ... caption ...; return table
TextableReturn ==
    /\ tex.pc = "caption"
    /\ tex' = [tex EXCEPT !.pc = "returned"]

(***************************************************************************)
(* Properties of one bailmap call                                          *)
(***************************************************************************)
\* C1: the k-th outcome pulled from the sequence bailmap returns is func
\* applied to the k-th input, whatever the order in which workers finish.
C1_OutputsInInputOrder ==
    \A k \in 1..Len(call.received) :
        call.received[k] = Apply("func", call.inputs[k])

\* The first output has been pulled while the result of the third task came
\* in before that of the second.
C1_Witness ==
    /\ Len(call.received) = 1
    /\ call.received[1].ok
    /\ pools["compute"].index = 1
    /\ \E r \in pools["compute"].unsorted : r.i = 2

\* C2: no worker process runs a second task: a worker that has completed a
\* task has exited, and the worker running a task has completed none.
C2_OneTaskPerWorker ==
    \A p \in PoolIds : \A w \in Workers(p) :
        LET v == pools[p].workers[w]
        IN  /\ v.completed <= 1
            /\ v.completed = 1 => v.st \in {"exited", "joined"}
            /\ v.st = "busy" => v.completed = 0

\* A worker that ran one task has been replaced and its replacement runs the
\* next task.
C2_Witness ==
    /\ pools["compute"].state = "closed"
    /\ \E w, v \in Workers("compute") :
        /\ pools["compute"].workers[w].st = "joined"
        /\ pools["compute"].workers[w].completed = 1
        /\ v > pools["compute"].procs
        /\ pools["compute"].workers[v].st = "busy"

\* C4: within one bailmap call at most `processes' tasks are in flight.
C4_InFlightAtMostProcesses ==
    pools["compute"].state = "closed" =>
        Cardinality(InFlight(pools["compute"])) <= call.procs

\* Every process of the largest pool runs a task while another task waits.
C4_Witness ==
    /\ pools["compute"].state = "closed"
    /\ call.procs = MaxProcs
    /\ Cardinality(InFlight(pools["compute"])) = MaxProcs
    /\ pools["compute"].inq # <<>>

FirstRaising(inputs) ==
    LET bad == {k \in 1..Len(inputs) : ~Apply("func", inputs[k]).ok}
    IN  IF bad = {} THEN 0 ELSE CHOOSE k \in bad : \A j \in bad : k <= j

\* C5: when position i is the first whose task raises, the consumer gets the
\* values of the positions before i in order and the failure on pulling
\* position i, not at another position.
C5_FailureAtItsPosition ==
    LET i == FirstRaising(call.inputs)
    IN  i > 0 =>
            /\ \A k \in 1..Len(call.received) :
                   k < i => /\ call.received[k].ok
                            /\ call.received[k].val = Apply("func", call.inputs[k]).val
            /\ Len(call.received) >= i => ~call.received[i].ok

\* The consumer has pulled a value and then the failure of the second task.
C5_Witness ==
    /\ FirstRaising(call.inputs) = 2
    /\ Len(call.received) = 2
    /\ call.received[1].ok
    /\ ~call.received[2].ok

AllWorkersExited ==
    /\ pools["compute"].state = "closed"
    /\ Alive(pools["compute"]) = {}

\* C6: once bailmap has returned the closed pool winds down: every worker
\* process exits and none stays alive, also when the consumer stops pulling
\* and when a task has raised.
C6_PoolWindsDown == <>[]AllWorkersExited

\* All workers have exited although a task raised and the consumer never
\* pulled an output.
C6_Witness ==
    /\ AllWorkersExited
    /\ call.pc = "consuming"
    /\ call.received = <<>>
    /\ FirstRaising(call.inputs) = 1
    /\ Len(call.inputs) = MaxInputs
    /\ pools["compute"].index = MaxInputs

\* The consumer has not called next(mapped) yet.
NeverPulled ==
    /\ call.pc \in {"start", "consuming"}
    /\ ~call.waiting
    /\ call.received = <<>>

\* Some worker has taken a task.
SomeTaskStarted ==
    \E w \in Workers("compute") :
        \/ pools["compute"].workers[w].st = "busy"
        \/ pools["compute"].workers[w].completed > 0

\* C20 as stated: no task is started before the consumer first pulls from
\* the sequence bailmap returned; without a pull no task is executed.
C20_NoTaskBeforeFirstPull == NeverPulled => ~SomeTaskStarted

\* The result of every task has been filed with the iterator.
AllTasksExecuted ==
    /\ pools["compute"].state # "none"
    /\ pools["compute"].index = Len(call.inputs)

\* C20, amended: the pool drives the execution, not the consumer: once
\* bailmap is called every task gets executed, also when the consumer never
\* pulls; pulling only hands over the outputs.
C20_TasksRunWithoutPull == <>AllTasksExecuted

\* All tasks of a full-length call are executed and the consumer has not
\* pulled once.
C20_Witness ==
    /\ NeverPulled
    /\ Len(call.inputs) = MaxInputs
    /\ AllTasksExecuted
    /\ pools["compute"].items # <<>>

(***************************************************************************)
(* Properties of a request                                                 *)
(***************************************************************************)
TasksInFlight ==
    Cardinality(UNION {{<<p, w>> : w \in IF pools[p].state = "none" THEN {}
                                          ELSE InFlight(pools[p])} : p \in PoolIds})

\* C3: during a request called with processes = P the worker tasks in flight,
\* counted over the compute stage, the chunk merges and the cascade together,
\* never exceed P.
C3_RequestInFlightAtMostProcesses ==
    pipe.pc # "idle" => TasksInFlight <= pipe.procs

\* ceil(n / k), as the least c with c * k >= n
CeilDiv(n, k) == CHOOSE c \in 0..n : c * k >= n /\ (c = 0 \/ (c - 1) * k < n)

\* The Tasks the workers of the compute pool are running.
ComputeRunning ==
    IF pools["compute"].state = "none" THEN {}
    ELSE {pools["compute"].workers[w].task : w \in InFlight(pools["compute"])}

\* C13: a request over `count' points with ntoys toys in batches of k expands
\* count * ceil(ntoys / k) Tasks, point by point; the i-th Task has the seed
\* init_seed(random_seed) + i; the seeds of the Tasks differ pairwise; and
\* what the request returns is the one item cascade is left with, made of
\* all the Tasks.
C13_TasksExpanded ==
    pipe.pc # "idle" =>
        LET nb == CeilDiv(pipe.ntoys, pipe.batch_size)
            total == pipe.count * nb
            c == pools["compute"]
            specs == PipeSpecs
        IN  /\ Len(specs) = total
            /\ \A t \in 1..Len(specs) :
                  /\ specs[t].i = t - 1
                  /\ specs[t].point = ((t - 1) \div nb) + 1
                  /\ specs[t].seed = [hi |-> MixSeed(pipe.random_seed), lo |-> t]
            /\ \A t, u \in 1..Len(specs) :
                  t # u => specs[t].seed # specs[u].seed
            /\ (c.state # "none" /\ c.length # -1) => c.length = total
            /\ \A task \in ComputeRunning :
                  /\ task.i < total
                  /\ task.arg.i = task.i
                  /\ task.arg.point = (task.i \div nb) + 1
                  /\ task.arg.seed = [hi |-> MixSeed(pipe.random_seed), lo |-> 1 + task.i]
            /\ \A t, u \in ComputeRunning : t # u => t.arg.seed # u.arg.seed
            /\ pipe.pc = "done" =>
                  /\ Len(pipe.items) = 1
                  /\ pipe.result = pipe.items[1]
                  /\ Len(pipe.result) = total
                  /\ \A t \in 1..total : \E u \in 1..total : pipe.result[u].i = t - 1

\* A request over two points with two batches each has returned.
C13_Witness ==
    /\ pipe.pc = "done"
    /\ pipe.count = 2
    /\ pipe.ntoys = 2
    /\ pipe.batch_size = 1
    /\ pipe.random_seed = 34937
    /\ Len(pipe.result) = 4

\* The Tasks in the order the request expanded them, from position a to b.
TaskRun(a, b) == SubSeq(PipeSpecs, a, b)

RECURSIVE TasksOf(_)
\* The Tasks that went into a list of Artifacts, in the order of the list.
TasksOf(artifacts) ==
    IF artifacts = <<>> THEN <<>>
    ELSE Head(artifacts) \o TasksOf(Tail(artifacts))

\* C14: the results of the Tasks are taken in Task order in chunks of at most
\* batch_size, each chunk is merged into one Artifact, and cascade reduces
\* these to the one it returns: the Artifact returned is made of the result
\* of every Task exactly once, in Task order.
C14_MergedInTaskOrder ==
    pipe.pc # "idle" =>
        LET k == pipe.batch_size
            total == Len(PipeSpecs)
            m == pools["merge"]
            ChunkTasks(n) == TaskRun(n * k + 1, Min((n + 1) * k, total))
        IN  /\ Len(pipe.chunk) < k
            /\ m.state # "none" =>
                  /\ \A w \in InFlight(m) :
                        LET task == m.workers[w].task
                        IN  /\ Len(task.arg) >= 1
                            /\ Len(task.arg) <= k
                            /\ TasksOf(task.arg) = ChunkTasks(task.i)
                  /\ \A j \in 1..Len(m.outq) :
                        m.outq[j].i # -1 =>
                            m.outq[j].res = [ok |-> TRUE, val |-> ChunkTasks(m.outq[j].i)]
            /\ pipe.pc = "collect" =>
                  TasksOf(pipe.items) = TaskRun(1, Min(Len(pipe.items) * k, total))
            /\ (pipe.pc = "cascade" /\ pipe.j = 0) =>
                  TasksOf(pipe.items) = PipeSpecs
            /\ pipe.pc = "done" => pipe.result = PipeSpecs

\* A request whose four Tasks were merged chunk by chunk and then by two
\* rounds of cascade has returned.
C14_Witness ==
    /\ pipe.pc = "done"
    /\ Len(pipe.result) = 4
    /\ pipe.rounds = 2
    /\ pipe.result = PipeSpecs

\* C19: for every configuration main lets through (processes, nbatch and
\* ntoys positive, a whole number of points) the list cascade works on is
\* not empty.
C19_CascadeListNonEmpty ==
    pipe.pc \in {"cascade", "reducing", "done", "raised"} => Len(pipe.items) >= 1

(***************************************************************************)
(* Properties of cascade                                                   *)
(***************************************************************************)
RECURSIVE FoldLeft(_, _)
FoldLeft(f, s) ==
    IF Len(s) = 1 THEN s[1]
    ELSE Combine(f, FoldLeft(f, SubSeq(s, 1, Len(s) - 1)), s[Len(s)])

RECURSIVE SumSeq(_)
SumSeq(s) == IF s = <<>> THEN 0 ELSE s[1] + SumSeq(Tail(s))

\* C7: for a non-empty list and an associative combine (addition, or the
\* non-commutative concatenation) cascade returns the left-to-right fold of
\* combine over the items in input order; cascade(add, items) is sum(items).
C7_CascadeIsFold ==
    casc.pc = "done" =>
        /\ casc.result = FoldLeft(casc.func, casc.input)
        /\ casc.func = "add" => casc.result = SumSeq(casc.input)

\* A cascade over a list of odd length > 2 with the non-commutative combine
\* has returned.
C7_Witness ==
    /\ casc.pc = "done"
    /\ casc.func = "concat"
    /\ Len(casc.input) = MaxItems
    /\ casc.rounds > 1

CeilHalf(n) == (n + 1) \div 2

RECURSIVE CeilLog2(_)
CeilLog2(n) == IF n <= 1 THEN 0 ELSE 1 + CeilLog2(CeilHalf(n))

\* C8: every round turns a working list of length n > 1 into one of length
\* ceil(n/2), the working list never holds more than the N input items, and
\* cascade returns after exactly ceil(log2 N) rounds and N - 1 calls of
\* combine (none for N = 1).
C8_CascadeRounds ==
    [][/\ Len(casc'.items) <= Len(casc.input)
       /\ (casc.pc = "loop" /\ Len(casc.items) > 1) =>
              Len(casc'.items) = CeilHalf(Len(casc.items))
       /\ casc'.pc = "done" =>
              /\ casc'.rounds = CeilLog2(Len(casc.input))
              /\ casc'.calls = Len(casc.input) - 1]_vars

\* A cascade over the longest list has returned after three rounds.
C8_Witness ==
    /\ casc.pc = "done"
    /\ Len(casc.input) = MaxItems
    /\ casc.rounds = CeilLog2(MaxItems)
    /\ casc.calls = MaxItems - 1

(***************************************************************************)
(* Properties of batch                                                     *)
(***************************************************************************)
\* C9: batch(total, max_chunk) yields ceil(total / max_chunk) sizes, all
\* max_chunk but possibly the last, which is the remainder; they sum to total,
\* each is in (0, max_chunk], and total = 0 yields nothing.
C9_BatchSizes ==
    bat.pc = "done" =>
        LET n == bat.n
            k == bat.k
            out == bat.out
            count == CHOOSE c \in 0..n : c * k >= n /\ (c = 0 \/ (c - 1) * k < n)
        IN  /\ Len(out) = count
            /\ \A j \in 1..Len(out) : out[j] > 0 /\ out[j] <= k
            /\ \A j \in 1..(Len(out) - 1) : out[j] = k
            /\ Len(out) > 0 => out[Len(out)] = n - (count - 1) * k
            /\ SumSeq(out) = n
            /\ n = 0 => out = <<>>

\* A batch with a remainder chunk after several full chunks has finished.
C9_Witness ==
    /\ bat.pc = "done"
    /\ Len(bat.out) >= 3
    /\ bat.n % bat.k # 0
    /\ bat.out[Len(bat.out)] = bat.n % bat.k

(***************************************************************************)
(* Properties of the seeds                                                 *)
(***************************************************************************)
\* C10: the seed the generator uses for a task, the low 32 bits of
\* init_seed(base) + i, is never 0.
C10_SeedNeverZero ==
    sd.pc = "seeded" => sd.used # [hi |-> 0, lo |-> 0]

\* The two halves of the 32-bit seed of the task with index i keep to the
\* partition: mixed user seed above, counter 1 + i, never 0, below.
SeedPartition(i) ==
    LET used == SetSeedValue(SeedPlus(sd.seed, i))
    IN  /\ used.hi = MixSeed(sd.base)
        /\ used.lo = 1 + i
        /\ used.lo # 0

\* C11 as stated: for every task index i >= 0 the high 16 bits of the 32-bit
\* seed init_seed(b) + i are (b * 0x9e37) mod 2**16 and the low 16 bits are
\* the counter 1 + i, which is never 0.
C11_PartitionEveryIndex ==
    sd.pc = "seeded" => sd.used = SetSeedValue(SeedPlus(sd.seed, sd.index))
                        /\ SeedPartition(sd.index)

\* C11, amended: the partition holds for the task indices 0 <= i < 2**16 - 1,
\* the indices whose counter 1 + i fits the low half; there the counter
\* starts at 1, grows by one from each task to the next and is never 0.
C11_PartitionWhileCounterFits ==
    (sd.pc = "seeded" /\ sd.index < HalfWord - 1) =>
        /\ sd.used = SetSeedValue(SeedPlus(sd.seed, sd.index))
        /\ SeedPartition(sd.index)
        /\ sd.index = 0 => sd.used.lo = 1
        /\ sd.index > 0 =>
              sd.used.lo = SetSeedValue(SeedPlus(sd.seed, sd.index - 1)).lo + 1

\* The last task whose counter fits has been seeded, for the user seed
\* whose mixed half is 0xffff.
C11_Witness ==
    /\ sd.pc = "seeded"
    /\ sd.base = 34937
    /\ sd.index = HalfWord - 2
    /\ sd.used = [hi |-> HalfWord - 1, lo |-> HalfWord - 1]

\* A request is called with arguments it must refuse when the calculator
\* throws toys and ntoys or batch_size is not positive, or when random_seed
\* is outside [0, 2**16).
EntryInvalid ==
    \/ /\ req.calculatorType \in TOY_CALCULATORS
       /\ (req.ntoys <= 0 \/ req.batch_size <= 0)
    \/ req.random_seed < 0
    \/ req.random_seed >= HalfWord

\* C12: a request with a toy calculator and ntoys <= 0 or batch_size <= 0, or
\* with random_seed outside [0, 2**16), raises before any worker process is
\* started: it never comes to its first bailmap.
C12_InvalidRaisesBeforeSpawn ==
    EntryInvalid =>
        /\ req.pc # "spawned"
        /\ \A p \in PoolIds : pools[p].state = "none"

UnmixSeed(mixed) ==
    ((mixed % 256) * 30599 + (((mixed \div 256) * 30599) % 256) * 256) % HalfWord

\* The index is below 2**16 - 1: its counter fits the low half.
CounterFits(i) == i.hi = 0 /\ i.lo < HalfWord - 1

\* C23: init_seed is injective on [0, 2**16), so the seeds of Tasks i and j,
\* both below 2**16 - 1, of two different user seeds differ; and they still
\* differ when the counter of one of them overflows by one step.
C23_StreamsDisjoint ==
    /\ sd.pc \in {"pair_derived", "pair_seeded"} =>
          /\ UnmixSeed(sd.seed.hi) = sd.base
          /\ sd.base # sd.other => sd.seed # sd.seed2
    /\ (sd.pc = "pair_seeded" /\ sd.base # sd.other /\ CounterFits(sd.j)) =>
          /\ CounterFits(sd.i) => sd.used # sd.used2
          /\ sd.i = [hi |-> 0, lo |-> HalfWord - 1] => sd.used # sd.used2

\* Adjacent user seeds, the counter of the first overflown by one step, the
\* second at its last counter that fits.
C23_Witness ==
    /\ sd.pc = "pair_seeded"
    /\ sd.other = sd.base + 1
    /\ sd.i = [hi |-> 0, lo |-> HalfWord - 1]
    /\ sd.j = [hi |-> 0, lo |-> HalfWord - 2]
    /\ sd.used.lo = 0
    /\ sd.used2.lo = HalfWord - 1

(***************************************************************************)
(* Properties of merge and execute                                         *)
(***************************************************************************)
\* merge has returned to execute.
MergeReturned == ulr.pc \in {"dump", "output", "done"}

\* Some seed is in two of the records merge is to combine.
SeedInTwoRecords ==
    \E a, b \in 1..Len(ulr.specs) :
        /\ a < b
        /\ ulr.specs[a].seed_to_filename \cap ulr.specs[b].seed_to_filename # {}

NoSeedTwice(toys) == \A a, b \in 1..Len(toys) : a # b => toys[a] # toys[b]

\* C15: merge raises whenever a seed is in two of the records it combines,
\* the loaded ones and this call's own, wherever chunked and cascade place
\* the two; no result it returns or builds on the way holds a seed twice.
C15_ReusedSeedRaises ==
    ulr.pc # "idle" =>
        /\ (MergeReturned /\ ulr.load # <<>>) => ~SeedInTwoRecords
        /\ MergeReturned => NoSeedTwice(ulr.inv) /\ NoSeedTwice(ulr.test)
        /\ \A i \in 1..Len(ulr.items) :
             NoSeedTwice(ulr.items[i].inv) /\ NoSeedTwice(ulr.items[i].test)

\* Three records in chunks of one, the first and the third with a seed in
\* common: the first round merged the first two, the second round raised.
C15_Witness ==
    /\ ulr.pc = "raised"
    /\ ulr.nbatch = 1
    /\ Len(ulr.specs) = 3
    /\ ulr.specs[1].seed_to_filename \cap ulr.specs[3].seed_to_filename # {}
    /\ Len(ulr.items) = 2
    /\ Len(ulr.items[1].inv) >= 2

\* C16: a merge of a non-empty -load list that succeeds returns as seed the
\* union of the seeds of the records combined, a frozenset or, for one seed,
\* the int; the record dumped loads back with that seed set, and a later
\* merge that loads it raises on a seed of that set.
C16_SeedIsUnion ==
    ulr.pc # "idle" =>
        LET union == UNION {ulr.specs[i].seed_to_filename : i \in 1..Len(ulr.specs)}
        IN  /\ (MergeReturned /\ ulr.load # <<>>) =>
                  /\ SeedKeys(ulr.ret_seed) = union
                  /\ ulr.ret_seed.kind = (IF Cardinality(union) = 1 THEN "int"
                                          ELSE "frozenset")
                  /\ ulr.ret_seed.kind = "int" => union = {ulr.ret_seed.n}
                  /\ ulr.ret_seed.kind = "frozenset" => ulr.ret_seed.set = union
            /\ (ulr.pc \in {"output", "done"} /\ "dump" \in ulr.operations
                /\ ulr.load # <<>>) =>
                  Load(ulr.disk[1]).seed_to_filename = union
            /\ (ulr.run = 2 /\ MergeReturned) =>
                  /\ ~SeedInTwoRecords
                  /\ NoSeedTwice(ulr.inv)

\* The later run loaded a record stored with a frozenset of two seeds and a
\* file of one of these seeds, and raised.
C16_Witness ==
    /\ ulr.pc = "raised"
    /\ ulr.run = 2
    /\ Len(ulr.load) = 2
    /\ ulr.load[1].valid /\ ulr.load[2].valid
    /\ ulr.load[1].seed.kind = "frozenset"
    /\ Cardinality(ulr.load[1].seed.set) = 2
    /\ ulr.load[1] = ulr.old[1]
    /\ ulr.load[2].seed.kind = "int"
    /\ ulr.load[2].seed.n \in ulr.load[1].seed.set

\* C17: when invert, test or merge raises, execute neither dumps nor
\* outputs: the *_dump.pickle of the run is as it was.
C17_RaiseLeavesNoDump ==
    ulr.pc = "raised" => ulr.disk = ulr.old /\ ~ulr.output

\* merge raised in a run that was to dump and to output, with a dump file of
\* an earlier run in place.
C17_Witness ==
    /\ ulr.pc = "raised"
    /\ ulr.run = 1
    /\ {"invert", "dump", "output"} \subseteq ulr.operations
    /\ ulr.specs # <<>>
    /\ ulr.inv # <<>>
    /\ ulr.old # <<>>
    /\ ulr.disk = ulr.old

(***************************************************************************)
(* Properties of output                                                    *)
(***************************************************************************)
\* C18: output warns and sets CLb to 0 exactly when the upper limit is
\* outside [lowest scanned point, highest scanned point]; a limit at the
\* lowest point is interpolated without a warning, a limit above the highest
\* takes the fallback.
C18_FallbackIffOutsideScan ==
    lim.pc = "done" =>
        LET lowest == lim.xs[1]
            highest == lim.xs[Len(lim.xs)]
        IN  /\ lim.warned <=> (lim.visobs < lowest \/ lim.visobs > highest)
            /\ lim.visobs = lowest => ~lim.warned
            /\ lim.visobs > highest => lim.warned /\ lim.clb.num = 0

(***************************************************************************)
(* Properties of textable                                                  *)
(***************************************************************************)
\* C21: textable has a caption text for every member of TestStatistic and
\* for every member of CalculatorType, and raises ValueError only for a
\* statistic or a calculator that is not a member of its enum.
C21_TextForEveryMember ==
    LET statistic_is_member ==
            tex.statistic \in {StatisticMember(name) : name \in TestStatistic}
        calculator_is_member ==
            tex.calculator \in {Member(name) : name \in CalculatorType}
    IN  /\ tex.pc = "raised" => ~(statistic_is_member /\ calculator_is_member)
        /\ tex.pc = "returned" =>
              /\ statistic_is_member /\ tex.statistic_text # ""
              /\ calculator_is_member /\ tex.calculator_text # ""

(***************************************************************************)
(* Specifications                                                          *)
(***************************************************************************)
SpecSeedInit ==
    /\ SeedInit /\ bat = Idle /\ casc = Idle /\ pools = NoPools /\ call = Idle /\ pipe = Idle
    /\ req = Idle /\ ulr = Idle /\ lim = Idle /\ tex = Idle
SpecSeedNext ==
    \/ SeedDerive /\ UNCHANGED <<bat, casc, pools, call, pipe, req, ulr, lim, tex>>
    \/ SeedTask /\ UNCHANGED <<bat, casc, pools, call, pipe, req, ulr, lim, tex>>
SpecSeed == SpecSeedInit /\ [][SpecSeedNext]_vars

SpecSeedPairInit ==
    /\ PairInit /\ bat = Idle /\ casc = Idle /\ pools = NoPools /\ call = Idle /\ pipe = Idle
    /\ req = Idle /\ ulr = Idle /\ lim = Idle /\ tex = Idle
SpecSeedPairNext ==
    \/ PairDerive /\ UNCHANGED <<bat, casc, pools, call, pipe, req, ulr, lim, tex>>
    \/ PairTask /\ UNCHANGED <<bat, casc, pools, call, pipe, req, ulr, lim, tex>>
SpecSeedPair == SpecSeedPairInit /\ [][SpecSeedPairNext]_vars

SpecBatchInit ==
    /\ BatchInit /\ sd = Idle /\ casc = Idle /\ pools = NoPools /\ call = Idle /\ pipe = Idle
    /\ req = Idle /\ ulr = Idle /\ lim = Idle /\ tex = Idle
SpecBatchNext ==
    \/ BatchYield /\ UNCHANGED <<sd, casc, pools, call, pipe, req, ulr, lim, tex>>
    \/ BatchStop /\ UNCHANGED <<sd, casc, pools, call, pipe, req, ulr, lim, tex>>
SpecBatch == SpecBatchInit /\ [][SpecBatchNext]_vars

SpecCascadeInit ==
    /\ CascadeInit /\ sd = Idle /\ bat = Idle /\ pools = NoPools /\ call = Idle /\ pipe = Idle
    /\ req = Idle /\ ulr = Idle /\ lim = Idle /\ tex = Idle
SpecCascadeNext ==
    \/ CascadeStep /\ UNCHANGED <<sd, bat, pools, call, pipe, req, ulr, lim, tex>>
    \/ CascadeReturn /\ UNCHANGED <<sd, bat, pools, call, pipe, req, ulr, lim, tex>>
SpecCascade == SpecCascadeInit /\ [][SpecCascadeNext]_vars

SpecPoolInit ==
    /\ CallInit /\ sd = Idle /\ bat = Idle /\ casc = Idle /\ pipe = Idle
    /\ req = Idle /\ ulr = Idle /\ lim = Idle /\ tex = Idle
SpecPoolNext ==
    \/ Bailmap
    \/ CallWorkerGet
    \/ CallWorkerRun
    \/ CallMaintainPool
    \/ CallWorkerHandlerExit
    \/ CallTaskHandlerPut
    \/ CallTaskHandlerSetLength
    \/ CallTaskHandlerSentinel
    \/ CallResultHandlerGet
    \/ ConsumerPull
    \/ ConsumerNext
    \/ ConsumerStop
SpecPool == SpecPoolInit /\ [][SpecPoolNext]_vars

\* The processes and threads of the pool are scheduled by the operating
\* system and every task returns or raises; the consumer is free to stop.
SpecPoolFair ==
    /\ SpecPoolInit
    /\ [][SpecPoolNext]_vars
    /\ WF_vars(Bailmap)
    /\ WF_vars(CallWorkerGet)
    /\ WF_vars(CallWorkerRun)
    /\ WF_vars(CallMaintainPool)
    /\ WF_vars(CallWorkerHandlerExit)
    /\ WF_vars(CallTaskHandlerPut)
    /\ WF_vars(CallTaskHandlerSetLength)
    /\ WF_vars(CallTaskHandlerSentinel)
    /\ WF_vars(CallResultHandlerGet)

SpecEntryInit ==
    /\ EntryInit /\ pools = NoPools
    /\ sd = Idle /\ bat = Idle /\ casc = Idle /\ call = Idle /\ pipe = Idle
    /\ ulr = Idle /\ lim = Idle /\ tex = Idle
SpecEntryNext ==
    \/ EntryAsserts /\ UNCHANGED <<sd, bat, casc, call, pipe, ulr, lim, tex>>
    \/ EntryInitSeed /\ UNCHANGED <<sd, bat, casc, call, pipe, ulr, lim, tex>>
    \/ EntryNoToys /\ UNCHANGED <<sd, bat, casc, call, pipe, ulr, lim, tex>>
    \/ EntryBailmap /\ UNCHANGED <<sd, bat, casc, call, pipe, ulr, lim, tex>>
SpecEntry == SpecEntryInit /\ [][SpecEntryNext]_vars

SpecExecuteInit ==
    /\ ExecInit /\ pools = NoPools
    /\ sd = Idle /\ bat = Idle /\ casc = Idle /\ call = Idle /\ pipe = Idle
    /\ req = Idle /\ lim = Idle /\ tex = Idle
SpecExecuteNext ==
    \/ ExecInvert /\ UNCHANGED <<sd, bat, casc, pools, call, pipe, req, lim, tex>>
    \/ ExecTest /\ UNCHANGED <<sd, bat, casc, pools, call, pipe, req, lim, tex>>
    \/ MergeCall /\ UNCHANGED <<sd, bat, casc, pools, call, pipe, req, lim, tex>>
    \/ MergeCollect /\ UNCHANGED <<sd, bat, casc, pools, call, pipe, req, lim, tex>>
    \/ MergeCollected /\ UNCHANGED <<sd, bat, casc, pools, call, pipe, req, lim, tex>>
    \/ MergeReduce /\ UNCHANGED <<sd, bat, casc, pools, call, pipe, req, lim, tex>>
    \/ MergeReturn /\ UNCHANGED <<sd, bat, casc, pools, call, pipe, req, lim, tex>>
    \/ ExecDump /\ UNCHANGED <<sd, bat, casc, pools, call, pipe, req, lim, tex>>
    \/ ExecOutput /\ UNCHANGED <<sd, bat, casc, pools, call, pipe, req, lim, tex>>
    \/ ExecAgain /\ UNCHANGED <<sd, bat, casc, pools, call, pipe, req, lim, tex>>
SpecExecute == SpecExecuteInit /\ [][SpecExecuteNext]_vars

SpecOutputInit ==
    /\ OutputInit /\ pools = NoPools
    /\ sd = Idle /\ bat = Idle /\ casc = Idle /\ call = Idle /\ pipe = Idle
    /\ req = Idle /\ ulr = Idle /\ tex = Idle
SpecOutputNext ==
    \/ OutputSort /\ UNCHANGED <<sd, bat, casc, pools, call, pipe, req, ulr, tex>>
    \/ OutputInterpolate /\ UNCHANGED <<sd, bat, casc, pools, call, pipe, req, ulr, tex>>
    \/ OutputFallback /\ UNCHANGED <<sd, bat, casc, pools, call, pipe, req, ulr, tex>>
SpecOutput == SpecOutputInit /\ [][SpecOutputNext]_vars

SpecTextableInit ==
    /\ TextableInit /\ pools = NoPools
    /\ sd = Idle /\ bat = Idle /\ casc = Idle /\ call = Idle /\ pipe = Idle
    /\ req = Idle /\ ulr = Idle /\ lim = Idle
SpecTextableNext ==
    \/ TextablePrescription /\ UNCHANGED <<sd, bat, casc, pools, call, pipe, req, ulr, lim>>
    \/ TextableStatistic /\ UNCHANGED <<sd, bat, casc, pools, call, pipe, req, ulr, lim>>
    \/ TextableCalculator /\ UNCHANGED <<sd, bat, casc, pools, call, pipe, req, ulr, lim>>
    \/ TextableReturn /\ UNCHANGED <<sd, bat, casc, pools, call, pipe, req, ulr, lim>>
SpecTextable == SpecTextableInit /\ [][SpecTextableNext]_vars

SpecPipeInit ==
    /\ PipeInit /\ sd = Idle /\ bat = Idle /\ casc = Idle /\ call = Idle
    /\ req = Idle /\ ulr = Idle /\ lim = Idle /\ tex = Idle
SpecPipeNext ==
    \/ PipeBailmapCompute
    \/ PipeBailmapMerge
    \/ PipeWorkerGet
    \/ PipeWorkerRun
    \/ PipeMaintainPool
    \/ PipeWorkerHandlerExit
    \/ PipeTaskHandlerSentinel
    \/ PipeResultHandlerGet
    \/ PipeComputePut
    \/ PipeComputeSetLength
    \/ PipeChunkPull
    \/ PipeChunkEnd
    \/ PipeMergeSetLength
    \/ PipeCollect
    \/ PipeCollected
    \/ PipeReduceCall
    \/ PipeReducePut
    \/ PipeReduceSetLength
    \/ PipeReduceNext
    \/ PipeReturn
    \/ PipeIndexError
SpecPipe == SpecPipeInit /\ [][SpecPipeNext]_vars

====
